---- MODULE Spec2Model ----
(***************************************************************************)
(* Model of src/app.py: a Streamlit script that searches the CKAN catalog  *)
(* of datos.gob.cl, loads one resource as a table, and computes            *)
(* descriptive statistics, a range filter, a top-15 grouping and a skew    *)
(* label.  One script run is a chain of actions, one per script section;   *)
(* a user interaction starts a new run (Rerun) that keeps the memo of the  *)
(* @st.cache_data functions and st.session_state.                          *)
(***************************************************************************)
EXTENDS Integers, Sequences, FiniteSets, TLC

VARIABLES
    tabla,            \* environment: rows the catalog serves for the resources
    pc,               \* position of the script run
    runs,             \* number of script runs started so far
    query, rows, limit_rows,   \* sidebar widgets (lines 106-112)
    session_datasets, \* st.session_state["datasets"]
    json_cache,       \* memo of get_json (keys)
    memo_search,      \* memo of buscar_datasets: key -> result
    memo_show,        \* memo of obtener_dataset: key -> result
    memo_store,       \* memo of cargar_recurso_datastore: key -> records
    netlog,           \* requests of this run that went to the network
    fetched,          \* inputs answered by the network so far in the session
    again,            \* inputs requested again after they had been answered
    dataset,          \* result of obtener_dataset (line 138)
    resource,         \* resource chosen in the selectbox (line 162)
    df,               \* table loaded by cargar_recurso (line 168)
    perfil,           \* profile counters (lines 179-183)
    col,              \* chosen indicator column (line 197)
    serie,            \* df[col].dropna() after coercion (line 201)
    rango,            \* range slider value (line 209)
    df_f,             \* filtered table (line 210)
    s,                \* filtered series (line 211)
    kpis,             \* KPI metrics (lines 215-220)
    cat, modo,        \* category column and reduction mode (lines 244-245)
    grp,              \* top-15 grouping (lines 250-258)
    asim,             \* skew label (line 274)
    msgs,             \* user-visible st.success/warning/error/info of this run
    uncaught          \* exception that escaped the script, or "none"

vars == << tabla, pc, runs, query, rows, limit_rows, session_datasets,
           json_cache, memo_search, memo_show, memo_store, netlog, fetched,
           again, dataset, resource, df, perfil, col, serie, rango, df_f, s, kpis, cat, modo,
           grp, asim, msgs, uncaught >>

----------------------------------------------------------------------------
(* Bounds of the model *)

MaxRows == 3          \* longest exhaustively enumerated table
MaxRuns == 3          \* script runs per session

(* Program constants *)

RowsMin == 5          \* slider "Cantidad de resultados", minimum
RowsDefault == 20     \* slider "Cantidad de resultados", default
LimitMin == 500       \* slider "Máx filas a cargar", minimum
LimitDefault == 5000  \* slider "Máx filas a cargar", default
TopN == 15            \* .head(15)
MaxUnique == 60       \* low_cardinality_cols(max_unique=60)
MinUnique == 2        \* 2 <= nun

----------------------------------------------------------------------------
(* Scalars of a table cell: a number, a text (sequence of characters), the *)
(* JSON null (Python None) or a missing float (NaN).                        *)

Num(n) == [k |-> "num", n |-> n, t |-> <<>>]
Txt(t) == [k |-> "txt", n |-> 0, t |-> t]
NoneCell == [k |-> "none", n |-> 0, t |-> <<>>]
NaNCell == [k |-> "nan", n |-> 0, t |-> <<>>]

IsNa(c) == c.k \in {"none", "nan"}

DigitChar == <<"0", "1", "2", "3", "4", "5", "6", "7", "8", "9">>

IsDigit(ch) == \E i \in 1..10 : DigitChar[i] = ch

DigitVal(ch) == (CHOOSE i \in 1..10 : DigitChar[i] = ch) - 1

RECURSIVE Digits(_)
Digits(n) ==
    IF n < 10 THEN << DigitChar[n + 1] >>
    ELSE Digits(n \div 10) \o << DigitChar[(n % 10) + 1] >>

RECURSIVE ParseDigits(_)
ParseDigits(t) ==
    IF t = <<>> THEN 0
    ELSE 10 * ParseDigits(SubSeq(t, 1, Len(t) - 1)) + DigitVal(t[Len(t)])

(* A text parses as a number when it is a non-empty run of digits. *)
Parses(t) == t # <<>> /\ \A i \in 1..Len(t) : IsDigit(t[i])


(* pd.to_numeric(errors="coerce") on one cell, line 200. *)
ToNumeric(c) ==
    IF c.k = "num" THEN c
    ELSE IF c.k = "txt" /\ Parses(c.t) THEN Num(ParseDigits(c.t))
    ELSE NaNCell

Min(a, b) == IF a <= b THEN a ELSE b

----------------------------------------------------------------------------
(* The catalog (environment): what the three CKAN actions answer.          *)

Cols == << "servicio", "egresos" >>

NoneFmt == << "<None>" >>     \* resource without a "format" key
NoneUrl == "<None>"           \* resource without a "url" key

Res(id, fmt, active, url) ==
    [id |-> id, format |-> fmt, datastore_active |-> active, url |-> url]

Resources ==
    << Res("R1", <<"C", "S", "V">>, TRUE, "u1"),
       Res("R2", <<"c", "s", "v">>, FALSE, "u2"),
       Res("R3", <<"X", "L", "S">>, FALSE, "u3"),
       Res("R4", <<"C", "S", "V">>, FALSE, ""),
       Res("R5", NoneFmt, FALSE, "u5"),
       Res("R6", <<"X", "L", "S">>, TRUE, NoneUrl) >>

NoResource == Res("", <<>>, FALSE, "")

NoDataset == [id |-> "", resources |-> <<>>]

Queries == {"hospital", "nada"}

RowsChoices == {RowsMin, RowsDefault}

LimitChoices == {LimitMin, LimitDefault}

(* package_search: the datasets matching q, at most n of them. *)
PackageSearch(q, n) ==
    LET found == IF q = "hospital" THEN << "D1", "D2" >> ELSE <<>>
    IN SubSeq(found, 1, Min(n, Len(found)))

(* package_show: the dataset with its resources. *)
PackageShow(id) ==
    [id |-> id, resources |-> IF id = "D1" THEN Resources ELSE <<>>]

(* datastore_search: the first `limit` records of the resource. *)
DatastoreSearch(rid, limit) == SubSeq(tabla, 1, Min(limit, Len(tabla)))

(* The CSV file behind a url: every cell written as text, null as empty. *)
CsvField(c) ==
    IF c.k = "num" THEN Digits(c.n) ELSE IF c.k = "txt" THEN c.t ELSE <<>>

CsvFile(url) == [i \in 1..Len(tabla) |-> [j \in 1..Len(Cols) |-> CsvField(tabla[i][j])]]

----------------------------------------------------------------------------
(* Tables (pandas DataFrame): column names, a dtype per column, rows.      *)

DataFrame(columns, dtypes, rws) ==
    [none |-> FALSE, columns |-> columns, dtypes |-> dtypes, rows |-> rws]

NoDF == [none |-> TRUE, columns |-> <<>>, dtypes |-> <<>>, rows |-> <<>>]

(* df.empty: some axis has length 0. *)
IsEmptyDF(d) == Len(d.columns) = 0 \/ Len(d.rows) = 0

ColIdx(d, c) == CHOOSE j \in 1..Len(d.columns) : d.columns[j] = c

Column(d, c) == [i \in 1..Len(d.rows) |-> d.rows[i][ColIdx(d, c)]]

(* pd.DataFrame(records), line 71: dtype inferred from the typed values. *)
RecordsDtype(recs, j) ==
    IF \E i \in 1..Len(recs) : recs[i][j].k = "txt" THEN "object"
    ELSE IF \A i \in 1..Len(recs) : recs[i][j].k = "none" THEN "object"
    ELSE IF \E i \in 1..Len(recs) : recs[i][j].k = "none" THEN "float64"
    ELSE "int64"

FromRecords(recs) ==
    IF recs = <<>> THEN DataFrame(<<>>, <<>>, <<>>)
    ELSE LET dt == [j \in 1..Len(Cols) |-> RecordsDtype(recs, j)]
         IN DataFrame(Cols, dt,
               [i \in 1..Len(recs) |->
                   [j \in 1..Len(Cols) |->
                       IF dt[j] = "float64" /\ recs[i][j].k = "none"
                       THEN NaNCell ELSE recs[i][j]]])

(* pd.read_csv(url), line 80: every field is text; a column whose          *)
(* non-empty fields all parse becomes numeric, any other stays text.       *)
CsvDtype(file, j) ==
    IF Len(file) = 0 THEN "object"
    ELSE IF \A i \in 1..Len(file) : file[i][j] = <<>> \/ Parses(file[i][j])
    THEN IF \E i \in 1..Len(file) : file[i][j] = <<>> THEN "float64" ELSE "int64"
    ELSE "object"

ReadCsv(file) ==
    LET dt == [j \in 1..Len(Cols) |-> CsvDtype(file, j)]
    IN DataFrame(Cols, dt,
          [i \in 1..Len(file) |->
              [j \in 1..Len(Cols) |->
                  IF file[i][j] = <<>> THEN NaNCell
                  ELSE IF dt[j] = "object" THEN Txt(file[i][j])
                  ELSE Num(ParseDigits(file[i][j]))]])

----------------------------------------------------------------------------
(* Helpers of the script, lines 51-97.                                     *)

Key(fn, a, n) == [fn |-> fn, a |-> a, n |-> n]

Req(ep, a, n, ok) == [ep |-> ep, a |-> a, n |-> n, ok |-> ok]

(* A request is sent (requests.get, or the fetch inside pd.read_csv). *)
NetCall(ep, a, n, ok) ==
    [netlog |-> Append(netlog, Req(ep, a, n, ok)),
     fetched |-> IF ok THEN fetched \cup {Key(ep, a, n)} ELSE fetched,
     again |-> IF Key(ep, a, n) \in fetched THEN again \cup {Key(ep, a, n)} ELSE again]

NoNetCall == [netlog |-> netlog, fetched |-> fetched, again |-> again]

(* get_json: memoised GET; r.raise_for_status() raises on failure and      *)
(* nothing is memoised then.  `ok` is the outcome of the request.          *)
get_json(ep, a, n, ok) ==
    IF Key(ep, a, n) \in json_cache
    THEN [raised |-> FALSE, json_cache |-> json_cache, net |-> NoNetCall]
    ELSE IF ok
    THEN [raised |-> FALSE, json_cache |-> json_cache \cup {Key(ep, a, n)},
          net |-> NetCall(ep, a, n, TRUE)]
    ELSE [raised |-> TRUE, json_cache |-> json_cache, net |-> NetCall(ep, a, n, FALSE)]

Upper(t) ==
    LET lower == <<"c", "l", "s", "v", "x">>
        upper == <<"C", "L", "S", "V", "X">>
    IN [i \in 1..Len(t) |->
          IF \E j \in 1..Len(lower) : lower[j] = t[i]
          THEN upper[CHOOSE j \in 1..Len(lower) : lower[j] = t[i]]
          ELSE t[i]]

(* Faulty variant, for sensitivity of the property below: the CSV branch is tried before the structured store. *)
Strategy_CsvFirst(r) ==
    IF Upper(IF r.format = NoneFmt THEN <<>> ELSE r.format) = <<"C", "S", "V">>
       /\ r.url \notin {NoneUrl, ""}
    THEN "csv"
    ELSE IF r.datastore_active THEN "datastore"
    ELSE "absent"

(* Faulty variant, for sensitivity of the property below: the CSV branch does not look at the url. *)
Strategy_AnyUrl(r) ==
    IF r.datastore_active THEN "datastore"
    ELSE IF Upper(IF r.format = NoneFmt THEN <<>> ELSE r.format) = <<"C", "S", "V">>
    THEN "csv"
    ELSE "absent"

(* cargar_recurso, lines 73-82: which branch the resource takes. *)
Strategy(r) ==
    IF r.datastore_active THEN "datastore"
    ELSE IF Upper(IF r.format = NoneFmt THEN <<>> ELSE r.format) = <<"C", "S", "V">>
            /\ r.url \notin {NoneUrl, ""}
    THEN "csv"
    ELSE "absent"


(* buscar_datasets, lines 57-60. *)
buscar_datasets(q, n, ok) ==
    LET k == Key("buscar_datasets", q, n)
        g == get_json("package_search", q, n, ok)
    IN IF k \in DOMAIN memo_search
       THEN [raised |-> FALSE, value |-> memo_search[k], json_cache |-> json_cache,
             memo |-> memo_search, net |-> NoNetCall]
       ELSE IF g.raised
       THEN [raised |-> TRUE, value |-> <<>>, json_cache |-> g.json_cache,
             memo |-> memo_search, net |-> g.net]
       ELSE [raised |-> FALSE, value |-> PackageSearch(q, n),
             json_cache |-> g.json_cache,
             memo |-> (k :> PackageSearch(q, n)) @@ memo_search,
             net |-> g.net]

(* obtener_dataset, lines 62-65. *)
obtener_dataset(id, ok) ==
    LET k == Key("obtener_dataset", id, 0)
        g == get_json("package_show", id, 0, ok)
    IN IF k \in DOMAIN memo_show
       THEN [raised |-> FALSE, value |-> memo_show[k], json_cache |-> json_cache,
             memo |-> memo_show, net |-> NoNetCall]
       ELSE IF g.raised
       THEN [raised |-> TRUE, value |-> NoDataset, json_cache |-> g.json_cache,
             memo |-> memo_show, net |-> g.net]
       ELSE [raised |-> FALSE, value |-> PackageShow(id),
             json_cache |-> g.json_cache,
             memo |-> (k :> PackageShow(id)) @@ memo_show,
             net |-> g.net]

(* cargar_recurso_datastore, lines 67-71. *)
cargar_recurso_datastore(rid, limit, ok) ==
    LET k == Key("cargar_recurso_datastore", rid, limit)
        g == get_json("datastore_search", rid, limit, ok)
    IN IF k \in DOMAIN memo_store
       THEN [raised |-> FALSE, value |-> memo_store[k], json_cache |-> json_cache,
             memo |-> memo_store, net |-> NoNetCall]
       ELSE IF g.raised
       THEN [raised |-> TRUE, value |-> NoDF, json_cache |-> g.json_cache,
             memo |-> memo_store, net |-> g.net]
       ELSE [raised |-> FALSE, value |-> FromRecords(DatastoreSearch(rid, limit)),
             json_cache |-> g.json_cache,
             memo |-> (k :> FromRecords(DatastoreSearch(rid, limit))) @@ memo_store,
             net |-> g.net]

(* cargar_recurso, lines 73-82.  pd.read_csv is not memoised: it fetches   *)
(* the url on every call and raises when the fetch fails.                  *)
cargar_recurso(r, limit, ok) ==
    IF Strategy(r) = "datastore" THEN cargar_recurso_datastore(r.id, limit, ok)
    ELSE IF Strategy(r) = "csv"
    THEN [raised |-> ~ok, value |-> IF ok THEN ReadCsv(CsvFile(r.url)) ELSE NoDF,
          json_cache |-> json_cache, memo |-> memo_store,
          net |-> NetCall("read_csv", r.url, 0, ok)]
    ELSE [raised |-> FALSE, value |-> NoDF, json_cache |-> json_cache,
          memo |-> memo_store, net |-> NoNetCall]


(* numeric_cols, lines 84-85: the columns of a number dtype, in order. *)
numeric_cols(d) ==
    LET idx == SelectSeq([j \in 1..Len(d.columns) |-> j],
                         LAMBDA j : d.dtypes[j] \in {"int64", "float64"})
    IN [i \in 1..Len(idx) |-> d.columns[idx[i]]]

(* Series.nunique(dropna=True), line 92. *)
nunique(d, c) == Cardinality({Column(d, c)[i] : i \in 1..Len(d.rows)} \ {NoneCell, NaNCell})

(* Faulty variant, for sensitivity of the property below: numeric columns are left out of the categorical candidates. *)
low_cardinality_cols_excl(d, max_unique) ==
    LET idx == SelectSeq([j \in 1..Len(d.columns) |-> j],
                         LAMBDA j : /\ d.dtypes[j] = "object"
                                    /\ MinUnique <= nunique(d, d.columns[j])
                                    /\ nunique(d, d.columns[j]) <= max_unique)
    IN [i \in 1..Len(idx) |-> d.columns[idx[i]]]

(* low_cardinality_cols, lines 87-97. *)
low_cardinality_cols(d, max_unique) ==
    LET idx == SelectSeq([j \in 1..Len(d.columns) |-> j],
                         LAMBDA j : MinUnique <= nunique(d, d.columns[j])
                                    /\ nunique(d, d.columns[j]) <= max_unique)
    IN [i \in 1..Len(idx) |-> d.columns[idx[i]]]

Range(seq) == {seq[i] : i \in 1..Len(seq)}

----------------------------------------------------------------------------
(* Arithmetic of the statistics.  A statistic is a rational num/den; NaN   *)
(* is the statistic of an empty series.                                    *)

Rat(n, d) == [num |-> n, den |-> d]

NaN == Rat(0, 0)

IsNaN(x) == x.den = 0

(* x > y on floats: false when either side is NaN. *)
RatGt(x, y) == ~IsNaN(x) /\ ~IsNaN(y) /\ x.num * y.den > y.num * x.den

RatLt(x, y) == RatGt(y, x)

RECURSIVE SumRange(_, _, _)
SumRange(seq, lo, hi) ==
    IF lo > hi THEN 0
    ELSE IF lo = hi THEN seq[lo]
    ELSE SumRange(seq, lo, (lo + hi) \div 2) + SumRange(seq, (lo + hi) \div 2 + 1, hi)

Sum(seq) == SumRange(seq, 1, Len(seq))

Sorted(seq) == SortSeq(seq, LAMBDA a, b : a < b)

Mean(seq) == IF Len(seq) = 0 THEN NaN ELSE Rat(Sum(seq), Len(seq))

Median(seq) ==
    LET x == Sorted(seq)
        n == Len(seq)
    IN IF n = 0 THEN NaN
       ELSE IF n % 2 = 1 THEN Rat(x[(n + 1) \div 2], 1)
       ELSE Rat(x[n \div 2] + x[n \div 2 + 1], 2)

(* Series.quantile(0.90): linear interpolation between closest ranks. *)
P90(seq) ==
    LET x == Sorted(seq)
        n == Len(seq)
        i == (9 * (n - 1)) \div 10 + 1
        f == (9 * (n - 1)) % 10
    IN IF n = 0 THEN NaN
       ELSE IF f = 0 THEN Rat(x[i], 1)
       ELSE Rat(10 * x[i] + f * (x[i + 1] - x[i]), 10)

MaxOf(seq) == IF Len(seq) = 0 THEN NaN ELSE Rat(Sorted(seq)[Len(seq)], 1)

MinOf(seq) == IF Len(seq) = 0 THEN NaN ELSE Rat(Sorted(seq)[1], 1)

(* The six metrics of lines 215-220. *)
KPIs(seq) ==
    [registros |-> Len(seq), suma |-> Rat(Sum(seq), 1), promedio |-> Mean(seq),
     mediana |-> Median(seq), p90 |-> P90(seq), maximo |-> MaxOf(seq)]

NoKPIs ==
    [registros |-> 0, suma |-> NaN, promedio |-> NaN, mediana |-> NaN,
     p90 |-> NaN, maximo |-> NaN]

----------------------------------------------------------------------------
(* Coercion and range filter, lines 200-211.                               *)

(* df[col] = pd.to_numeric(df[col], errors="coerce") *)
Coerce(d, c) ==
    LET j == ColIdx(d, c)
        new == [i \in 1..Len(d.rows) |->
                  IF IsNa(d.rows[i][j]) THEN NaNCell ELSE ToNumeric(d.rows[i][j])]
        dt == IF \E i \in 1..Len(new) : new[i].k = "nan" THEN "float64"
              ELSE IF d.dtypes[j] = "object" THEN "int64" ELSE d.dtypes[j]
    IN DataFrame(d.columns, [d.dtypes EXCEPT ![j] = dt],
                 [i \in 1..Len(d.rows) |-> [d.rows[i] EXCEPT ![j] = new[i]]])

(* df[col].dropna() as the sequence of its numbers. *)
DropNa(d, c) ==
    LET kept == SelectSeq(Column(d, c), LAMBDA x : ~IsNa(x))
    IN [i \in 1..Len(kept) |-> kept[i].n]

(* df[(df[col] >= lo) & (df[col] <= hi)] *)
FilterRange(d, c, lo, hi) ==
    LET j == ColIdx(d, c)
    IN DataFrame(d.columns, d.dtypes,
          SelectSeq(d.rows, LAMBDA r : ~IsNa(r[j]) /\ r[j].n >= lo /\ r[j].n <= hi))

(* Positions the range slider is moved to: the values of the series and a  *)
(* point in each gap between two of them.                                   *)
Stops(seq) ==
    Range(seq) \cup {v + 1 : v \in {w \in Range(seq) : w + 1 < MaxOf(seq).num}}


----------------------------------------------------------------------------
(* Top 15 by category, lines 242-258.                                      *)

(* astype(str) on one cell of a column of the given dtype, line 248. *)
Str(c, dtype) ==
    IF c.k = "num"
    THEN IF dtype = "float64" THEN Digits(c.n) \o <<".", "0">> ELSE Digits(c.n)
    ELSE IF c.k = "txt" THEN c.t
    ELSE IF c.k = "none" THEN <<"N", "o", "n", "e">>
    ELSE <<"n", "a", "n">>

(* Characters in code-point order, for the comparison of str keys. *)
Alphabet ==
    <<".", "0", "1", "2", "3", "4", "5", "6", "7", "8", "9", "N",
      "a", "b", "c", "d", "e", "n", "o">>

CharRank(ch) == CHOOSE i \in 1..Len(Alphabet) : Alphabet[i] = ch

StrLess(a, b) ==
    \E i \in 1..(Min(Len(a), Len(b)) + 1) :
        /\ \A j \in 1..(i - 1) : a[j] = b[j]
        /\ \/ i > Len(a) /\ i <= Len(b)
           \/ i <= Len(a) /\ i <= Len(b) /\ CharRank(a[i]) < CharRank(b[i])

(* tmp[cat] = tmp[cat].astype(str) *)
Labels(d, c) ==
    LET j == ColIdx(d, c)
    IN [i \in 1..Len(d.rows) |-> Str(d.rows[i][j], d.dtypes[j])]

(* Distinct labels in the order of their first row. *)
FirstSeen(labels) ==
    LET idx == SelectSeq([i \in 1..Len(labels) |-> i],
                         LAMBDA i : \A j \in 1..(i - 1) : labels[j] # labels[i])
    IN [i \in 1..Len(idx) |-> labels[idx[i]]]

(* The reduction of one group: sum(), mean() or count() of its values. *)
Reduce(m, values) ==
    IF m = "Suma" THEN Rat(Sum(values), 1)
    ELSE IF m = "Promedio" THEN Mean(values)
    ELSE Rat(Len(values), 1)

(* tmp.groupby(cat)[col].<reduction>(): one entry per label, the labels    *)
(* in sorted order (groupby sorts its keys).                                *)
GroupBy(d, c, v, m) ==
    LET labels == Labels(d, c)
        jv == ColIdx(d, v)
        keys == SortSeq(FirstSeen(labels), StrLess)
        idx == [i \in 1..Len(d.rows) |-> i]
        valuesOf(key) ==
            LET members == SelectSeq(idx, LAMBDA i : labels[i] = key)
            IN [i \in 1..Len(members) |-> d.rows[members[i]][jv].n]
    IN [i \in 1..Len(keys) |-> [label |-> keys[i], val |-> Reduce(m, valuesOf(keys[i]))]]

(* sort_values(ascending=False) with the default kind: every entry is      *)
(* followed only by entries that are not greater; the default sort is not  *)
(* stable, so entries of equal value come in any order.                    *)
RECURSIVE Orders(_)
Orders(G) ==
    IF G = {} THEN {<<>>}
    ELSE LET top == {g \in G : \A h \in G : ~RatGt(h.val, g.val)}
         IN UNION {{<<g>> \o rest : rest \in Orders(G \ {g})} : g \in top}

(* Faulty variant, for sensitivity of the property below: ascending sort. *)
SortValuesAsc(groups) ==
    {[i \in 1..Len(o) |-> o[Len(o) + 1 - i]] : o \in Orders(Range(groups))}

SortValuesDesc(groups) == Orders(Range(groups))

(* Faulty variant, for sensitivity of the property below: no truncation. *)
HeadAll(seq, n) == seq

HeadN(seq, n) == SubSeq(seq, 1, Min(n, Len(seq)))

(* The results the grouping of lines 250-258 can produce. *)
Top15(d, c, v, m) == {HeadN(o, TopN) : o \in SortValuesDesc(GroupBy(d, c, v, m))}

(* cat_candidates, line 242. *)
cat_candidates(d, v) ==
    SelectSeq(low_cardinality_cols(d, MaxUnique), LAMBDA c : c # v)

Modos == {"Suma", "Promedio", "Conteo"}

----------------------------------------------------------------------------
(* Skew label, line 274. *)

Positiva == "positiva (cola a la derecha)"
Negativa == "negativa (cola a la izquierda)"
Simetrica == "aprox. simétrica"

(* Faulty variant, for sensitivity of the property below: the two strict comparisons exchanged. *)
Asimetria_Swapped(seq) ==
    IF RatLt(Mean(seq), Median(seq)) THEN Positiva
    ELSE IF RatGt(Mean(seq), Median(seq)) THEN Negativa
    ELSE Simetrica

Asimetria(seq) ==
    IF RatGt(Mean(seq), Median(seq)) THEN Positiva
    ELSE IF RatLt(Mean(seq), Median(seq)) THEN Negativa
    ELSE Simetrica


----------------------------------------------------------------------------
(* Tables the catalog can hold.                                             *)

A == Txt(<<"a">>)
B == Txt(<<"b">>)
Bad == Txt(<<"b", "a", "d">>)

CatCells == {A, B, Num(1)}

ValCells == {Num(1), Num(3), NoneCell, Bad}

SmallTables ==
    UNION {[1..n -> {<<c, v>> : c \in CatCells, v \in ValCells}] : n \in 0..MaxRows}

(* egresos = [10, 20, 30, "bad", null] *)
Ejemplo == << <<A, Num(10)>>, <<B, Num(20)>>, <<A, Num(30)>>, <<B, Bad>>, <<A, NoneCell>> >>

Sesgada == << <<A, Num(1)>>, <<B, Num(2)>>, <<A, Num(3)>>, <<B, Num(4)>>, <<A, Num(100)>> >>

Pareja == << <<A, Num(1)>>, <<B, Num(2)>>, <<A, Num(3)>>, <<B, Num(4)>>, <<A, Num(5)>> >>

(* More rows than the smallest row limit. *)
Grande == [i \in 1..(LimitMin + 1) |-> <<IF i % 2 = 1 THEN A ELSE B, Num(1)>>]

(* One numeric code and its text: two values, one label. *)
Unificada == << <<Num(1), Num(1)>>, <<Txt(<<"1">>), Num(2)>>, <<A, Num(3)>> >>

SinCategoria == << <<NoneCell, Num(1)>>, <<A, Num(2)>>, <<B, Num(3)>>, <<NoneCell, Num(4)>> >>

Vacias == << <<A, NoneCell>>, <<B, NoneCell>> >>

(* TopN + 2 categories c17 .. c01, first seen in descending order;         *)
(* category i has Veces(i) rows, all of value i.                            *)
Etiqueta(i) == Txt(<<"c">> \o (IF i < 10 THEN <<"0">> ELSE <<>>) \o Digits(i))

Veces(i) == IF i <= 2 THEN i ELSE i - 1

RECURSIVE AnchaDesde(_)
AnchaDesde(i) ==
    IF i = 0 THEN <<>>
    ELSE [k \in 1..Veces(i) |-> <<Etiqueta(i), Num(i)>>] \o AnchaDesde(i - 1)

Ancha == AnchaDesde(TopN + 2)

(* A column of exactly MaxUnique distinct values, and one of one more. *)
Sesenta == [i \in 1..MaxUnique |-> <<A, Num(i)>>]

SesentaYUna == [i \in 1..(MaxUnique + 1) |-> <<A, Num(i)>>]

CuratedTables ==
    {Ejemplo, Sesgada, Pareja, Grande, Unificada, SinCategoria, Vacias, Ancha,
     Sesenta, SesentaYUna}

SessionTables == {<<>>, Ejemplo, Grande}

AllTables == SmallTables \cup CuratedTables

----------------------------------------------------------------------------
(* State of a script run before its first statement. *)

NoSession == << "<unset>" >>

NoPerfil == [filas |-> 0, columnas |-> 0, nulos |-> 0, numericas |-> 0, categorias |-> 0]

RunReset ==
    /\ dataset' = NoDataset
    /\ resource' = NoResource
    /\ df' = NoDF
    /\ perfil' = NoPerfil
    /\ col' = ""
    /\ serie' = <<>>
    /\ rango' = <<0, 0>>
    /\ df_f' = NoDF
    /\ s' = <<>>
    /\ kpis' = NoKPIs
    /\ cat' = ""
    /\ modo' = ""
    /\ grp' = <<>>
    /\ asim' = ""
    /\ msgs' = {}
    /\ uncaught' = "none"

(* The page is opened: first run with the widgets' defaults. *)
Init ==
    /\ tabla \in SessionTables
    /\ pc = "sidebar"
    /\ runs = 1
    /\ query = "hospital"
    /\ rows = RowsDefault
    /\ limit_rows = LimitDefault
    /\ session_datasets = NoSession
    /\ json_cache = {}
    /\ memo_search = <<>>
    /\ memo_show = <<>>
    /\ memo_store = <<>>
    /\ netlog = <<>>
    /\ fetched = {}
    /\ again = {}
    /\ dataset = NoDataset
    /\ resource = NoResource
    /\ df = NoDF
    /\ perfil = NoPerfil
    /\ col = ""
    /\ serie = <<>>
    /\ rango = <<0, 0>>
    /\ df_f = NoDF
    /\ s = <<>>
    /\ kpis = NoKPIs
    /\ cat = ""
    /\ modo = ""
    /\ grp = <<>>
    /\ asim = ""
    /\ msgs = {}
    /\ uncaught = "none"

session == << session_datasets, json_cache, memo_search, memo_show, memo_store, fetched, again >>

widgets == << query, rows, limit_rows >>

analysis == << perfil, col, serie, rango, df_f, s, kpis, cat, modo, grp, asim >>

(* Lines 114-119: "Buscar datasets" was pressed. *)
BuscarDatasets ==
    /\ pc = "sidebar"
    /\ runs > 1
    /\ \E ok \in BOOLEAN :
          LET b == buscar_datasets(query, rows, ok)
          IN /\ json_cache' = b.json_cache
             /\ memo_search' = b.memo
             /\ netlog' = b.net.netlog
             /\ fetched' = b.net.fetched
             /\ again' = b.net.again
             /\ session_datasets' = IF b.raised THEN session_datasets ELSE b.value
             /\ msgs' = msgs \cup {IF b.raised THEN "error: Error buscando datasets"
                                   ELSE "success: Busqueda realizada"}
    /\ pc' = "gate"
    /\ UNCHANGED << tabla, runs, widgets, memo_show, memo_store, dataset, resource,
                    df, analysis, uncaught >>

(* Line 114: the run was not started by the search button. *)
SinBuscar ==
    /\ pc = "sidebar"
    /\ pc' = "gate"
    /\ UNCHANGED << tabla, runs, widgets, session, netlog, dataset, resource, df, analysis,
                    msgs, uncaught >>

(* Lines 121-128. *)
Gate ==
    /\ pc = "gate"
    /\ IF session_datasets = NoSession
       THEN pc' = "stopped" /\ msgs' = msgs \cup {"warning: Primero presiona Buscar datasets"}
       ELSE IF session_datasets = <<>>
       THEN pc' = "stopped" /\ msgs' = msgs \cup {"error: No se encontraron datasets"}
       ELSE pc' = "dataset" /\ msgs' = msgs
    /\ UNCHANGED << tabla, runs, widgets, session, netlog, dataset, resource, df, analysis,
                    uncaught >>

(* Lines 133-148: dataset selectbox and obtener_dataset, not in a try. *)
SeleccionDataset ==
    /\ pc = "dataset"
    /\ \E i \in 1..Len(session_datasets), ok \in BOOLEAN :
          LET o == obtener_dataset(session_datasets[i], ok)
          IN /\ json_cache' = o.json_cache
             /\ memo_show' = o.memo
             /\ netlog' = o.net.netlog
             /\ fetched' = o.net.fetched
             /\ again' = o.net.again
             /\ dataset' = o.value
             /\ IF o.raised
                THEN pc' = "crashed" /\ uncaught' = "obtener_dataset" /\ msgs' = msgs
                ELSE IF Len(o.value.resources) = 0
                THEN /\ pc' = "stopped"
                     /\ uncaught' = uncaught
                     /\ msgs' = msgs \cup {"warning: Este dataset no tiene recursos"}
                ELSE pc' = "resource" /\ uncaught' = uncaught /\ msgs' = msgs
    /\ UNCHANGED << tabla, runs, widgets, session_datasets, memo_search, memo_store,
                    resource, df, analysis >>

(* Lines 153-172: resource selectbox and cargar_recurso, not in a try. *)
CargaDeDatos ==
    /\ pc = "resource"
    /\ \E i \in 1..Len(dataset.resources), ok \in BOOLEAN :
          LET c == cargar_recurso(dataset.resources[i], limit_rows, ok)
          IN /\ resource' = dataset.resources[i]
             /\ json_cache' = c.json_cache
             /\ memo_store' = c.memo
             /\ netlog' = c.net.netlog
             /\ fetched' = c.net.fetched
             /\ again' = c.net.again
             /\ df' = c.value
             /\ IF c.raised
                THEN pc' = "crashed" /\ uncaught' = "cargar_recurso" /\ msgs' = msgs
                ELSE IF c.value.none \/ IsEmptyDF(c.value)
                THEN /\ pc' = "stopped"
                     /\ uncaught' = uncaught
                     /\ msgs' = msgs \cup {"error: No se pudo cargar este recurso"}
                ELSE pc' = "profile" /\ uncaught' = uncaught /\ msgs' = msgs
    /\ UNCHANGED << tabla, runs, widgets, session_datasets, memo_search, memo_show,
                    dataset, analysis >>


(* Lines 177-195: profile counters, then the numeric columns. *)
Perfil ==
    /\ pc = "profile"
    /\ perfil' = [filas |-> Len(df.rows),
                  columnas |-> Len(df.columns),
                  nulos |-> Cardinality({<<i, j>> \in (1..Len(df.rows)) \X (1..Len(df.columns)) :
                                            IsNa(df.rows[i][j])}),
                  numericas |-> Len(numeric_cols(df)),
                  categorias |-> Len(low_cardinality_cols(df, MaxUnique))]
    /\ IF Len(numeric_cols(df)) = 0
       THEN pc' = "stopped" /\ msgs' = msgs \cup {"warning: No hay columnas numericas"}
       ELSE pc' = "indicator" /\ msgs' = msgs
    /\ UNCHANGED << tabla, runs, widgets, session, netlog, dataset, resource, df, col, serie,
                    rango, df_f, s, kpis, cat, modo, grp, asim, uncaught >>

(* Lines 197-205: indicator selectbox, coercion, empty check. *)
Indicador ==
    /\ pc = "indicator"
    /\ \E c \in Range(numeric_cols(df)) :
          /\ col' = c
          /\ df' = Coerce(df, c)
          /\ serie' = DropNa(df', c)
    /\ IF Len(serie') = 0
       THEN pc' = "stopped" /\ msgs' = msgs \cup {"warning: La columna no tiene valores numericos"}
       ELSE pc' = "filter" /\ msgs' = msgs
    /\ UNCHANGED << tabla, runs, widgets, session, netlog, dataset, resource, perfil, rango,
                    df_f, s, kpis, cat, modo, grp, asim, uncaught >>

(* Lines 207-223: range slider, filter, KPI metrics and describe(). *)
Filtro ==
    /\ pc = "filter"
    /\ \E lo \in Stops(serie), hi \in Stops(serie) :
          /\ lo <= hi
          /\ rango' = <<lo, hi>>
          /\ df_f' = FilterRange(df, col, lo, hi)
          /\ s' = DropNa(df_f', col)
    /\ kpis' = KPIs(s')
    /\ pc' = "viz"
    /\ UNCHANGED << tabla, runs, widgets, session, netlog, dataset, resource, df, perfil, col,
                    serie, cat, modo, grp, asim, msgs, uncaught >>

(* Lines 241-268: category selectbox, mode radio, top-15 grouping. *)
TopCategorias ==
    /\ pc = "viz"
    /\ IF Len(cat_candidates(df_f, col)) > 0
       THEN \E c \in Range(cat_candidates(df_f, col)), m \in Modos :
               /\ cat' = c
               /\ modo' = m
               /\ grp' \in Top15(df_f, c, col, m)
               /\ msgs' = msgs
       ELSE /\ msgs' = msgs \cup {"info: No se detectaron columnas categoricas"}
            /\ UNCHANGED << cat, modo, grp >>
    /\ pc' = "conclusion"
    /\ UNCHANGED << tabla, runs, widgets, session, netlog, dataset, resource, df, perfil, col,
                    serie, rango, df_f, s, kpis, asim, uncaught >>

(* Lines 273-290: automatic conclusion. *)
Conclusion ==
    /\ pc = "conclusion"
    /\ asim' = Asimetria(s)
    /\ pc' = "done"
    /\ UNCHANGED << tabla, runs, widgets, session, netlog, dataset, resource, df, perfil, col,
                    serie, rango, df_f, s, kpis, cat, modo, grp, msgs, uncaught >>

(* One widget is changed or a button pressed: the script runs again from  *)
(* the top; the other widgets, the memo and st.session_state survive.      *)
Rerun ==
    /\ pc \in {"stopped", "crashed", "done"}
    /\ runs < MaxRuns
    /\ runs' = runs + 1
    /\ \E q \in Queries, n \in RowsChoices, l \in LimitChoices :
          /\ Cardinality({w \in {"query", "rows", "limit"} :
                 \/ w = "query" /\ q # query
                 \/ w = "rows" /\ n # rows
                 \/ w = "limit" /\ l # limit_rows}) <= 1
          /\ query' = q
          /\ rows' = n
          /\ limit_rows' = l
    /\ pc' = "sidebar"
    /\ netlog' = <<>>
    /\ RunReset
    /\ UNCHANGED << tabla, session >>

Next ==
    \/ BuscarDatasets
    \/ SinBuscar
    \/ Gate
    \/ SeleccionDataset
    \/ CargaDeDatos
    \/ Perfil
    \/ Indicador
    \/ Filtro
    \/ TopCategorias
    \/ Conclusion
    \/ Rerun

Spec == Init /\ [][Next]_vars


----------------------------------------------------------------------------
(* The analysis of one loaded table: the state right after line 168 of the *)
(* run that follows a first successful search, with any table of AllTables *)
(* behind the resource, loaded from the structured store (R1) or from its  *)
(* CSV file (R2).                                                           *)

InitAnalisis ==
    /\ tabla \in AllTables
    /\ runs = 2
    /\ query = "hospital"
    /\ rows = RowsDefault
    /\ limit_rows \in LimitChoices
    /\ resource \in {Resources[1], Resources[2]}
    /\ session_datasets = PackageSearch(query, rows)
    /\ dataset = PackageShow("D1")
    /\ json_cache = {Key("package_search", query, rows), Key("package_show", "D1", 0)}
                    \cup (IF Strategy(resource) = "datastore"
                          THEN {Key("datastore_search", resource.id, limit_rows)} ELSE {})
    /\ memo_search = (Key("buscar_datasets", query, rows) :> PackageSearch(query, rows))
    /\ memo_show = (Key("obtener_dataset", "D1", 0) :> PackageShow("D1"))
    /\ df = IF Strategy(resource) = "datastore"
            THEN FromRecords(DatastoreSearch(resource.id, limit_rows))
            ELSE ReadCsv(CsvFile(resource.url))
    /\ memo_store = IF Strategy(resource) = "datastore"
                    THEN (Key("cargar_recurso_datastore", resource.id, limit_rows) :> df)
                    ELSE <<>>
    /\ netlog = << Req("package_search", query, rows, TRUE),
                   Req("package_show", "D1", 0, TRUE),
                   IF Strategy(resource) = "datastore"
                   THEN Req("datastore_search", resource.id, limit_rows, TRUE)
                   ELSE Req("read_csv", resource.url, 0, TRUE) >>
    /\ fetched = {Key(netlog[i].ep, netlog[i].a, netlog[i].n) : i \in 1..3}
    /\ again = {}
    /\ pc = IF IsEmptyDF(df) THEN "stopped" ELSE "profile"
    /\ msgs = {"success: Busqueda realizada"}
              \cup (IF IsEmptyDF(df) THEN {"error: No se pudo cargar este recurso"} ELSE {})
    /\ perfil = NoPerfil
    /\ col = ""
    /\ serie = <<>>
    /\ rango = <<0, 0>>
    /\ df_f = NoDF
    /\ s = <<>>
    /\ kpis = NoKPIs
    /\ cat = ""
    /\ modo = ""
    /\ grp = <<>>
    /\ asim = ""
    /\ uncaught = "none"

NextAnalisis ==
    \/ Perfil
    \/ Indicador
    \/ Filtro
    \/ TopCategorias
    \/ Conclusion

SpecAnalisis == InitAnalisis /\ [][NextAnalisis]_vars


----------------------------------------------------------------------------
(* Properties *)

ThisRun == Range(netlog)

Loaded == resource.id # ""

CsvSpellings == {<<x, y, z>> : x \in {"c", "C"}, y \in {"s", "S"}, z \in {"v", "V"}}

CsvCapable(r) == r.format \in CsvSpellings /\ r.url \notin {NoneUrl, ""}

(* C1: when the chosen resource is datastore-active, the load of this run  *)
(* sends no CSV request (its only load request is datastore_search for the *)
(* resource id and the row limit), and the table has at most limit_rows    *)
(* rows.                                                                    *)
C1_DatastoreOnly ==
    (Loaded /\ resource.datastore_active) =>
        /\ \A e \in ThisRun : e.ep # "read_csv"
        /\ \A e \in ThisRun : e.ep = "datastore_search" => (e.a = resource.id /\ e.n = limit_rows)
        /\ Len(df.rows) <= limit_rows

C1_Witness ==
    /\ pc = "profile"
    /\ resource.datastore_active
    /\ CsvCapable(resource)
    /\ Len(tabla) > limit_rows
    /\ Len(df.rows) = limit_rows

(* C2: once the range filter has been applied, an empty filtered series    *)
(* stops the run with a message, and no KPI, grouping or skew label is     *)
(* computed from it.                                                        *)
C2_EmptyFilteredHalts ==
    (~df_f.none /\ Len(s) = 0) =>
        /\ pc = "stopped"
        /\ "warning: La columna no tiene valores numericos" \in msgs
        /\ kpis = NoKPIs
        /\ grp = <<>>
        /\ asim = ""

FirstRow(labels, l) == CHOOSE i \in 1..Len(labels) : labels[i] = l /\ \A j \in 1..(i - 1) : labels[j] # l

GroupValue(l) ==
    LET labels == Labels(df_f, cat)
        members == SelectSeq([i \in 1..Len(labels) |-> i], LAMBDA i : labels[i] = l)
    IN Reduce(modo, [i \in 1..Len(members) |-> df_f.rows[members[i]][ColIdx(df_f, col)].n])

RatEq(x, y) == x.num * y.den = y.num * x.den

Kept == {grp[i].label : i \in 1..Len(grp)}

(* C3 as stated: categories of equal reduced value are ranked, and kept by *)
(* the truncation, in the order of their first row.                         *)
C3_TiesInFirstOccurrenceOrder ==
    cat # "" =>
        LET labels == Labels(df_f, cat)
        IN /\ \A i, j \in 1..Len(grp) :
                 (i < j /\ RatEq(grp[i].val, grp[j].val)) =>
                     FirstRow(labels, grp[i].label) < FirstRow(labels, grp[j].label)
           /\ \A l \in Range(labels) \ Kept : \A i \in 1..Len(grp) :
                 RatEq(GroupValue(l), grp[i].val) =>
                     FirstRow(labels, grp[i].label) < FirstRow(labels, l)

(* C3 amended: the ranking is by reduced value only: no entry is followed  *)
(* by one of strictly greater value, and no category left out by the       *)
(* truncation has a strictly greater value than a category that was kept.  *)
C3_RankedByValueOnly ==
    cat # "" =>
        /\ \A i, j \in 1..Len(grp) :
              i < j => ~RatGt(GroupValue(grp[j].label), GroupValue(grp[i].label))
        /\ \A l \in Range(Labels(df_f, cat)) \ Kept : \A i \in 1..Len(grp) :
              ~RatGt(GroupValue(l), GroupValue(grp[i].label))
        /\ \A i \in 1..Len(grp) : grp[i].val = GroupValue(grp[i].label)

C3_Witness ==
    /\ cat # ""
    /\ Len(grp) = TopN
    /\ \E l \in Range(Labels(df_f, cat)) \ Kept :
          /\ RatEq(GroupValue(l), grp[TopN].val)
          /\ FirstRow(Labels(df_f, cat), l) < FirstRow(Labels(df_f, cat), grp[TopN].label)

(* C4 as stated: an input that the network has answered once in the       *)
(* session (a search, a dataset, a store query, a CSV url) is served from  *)
(* the memo afterwards and never requested again.                           *)
C4_AtMostOneFetchPerInput == again = {}

(* C5 as stated: a failed request is reported by its stage; the run is     *)
(* never aborted by an exception.                                           *)
C5_FailuresContained ==
    (\E e \in ThisRun : ~e.ok) =>
        /\ uncaught = "none"
        /\ pc # "crashed"
        /\ \E m \in msgs : m = "error: Error buscando datasets" \/ m = "error: No se pudo cargar este recurso"

HasBadText(d, c) == \E i \in 1..Len(d.rows) : Column(d, c)[i].k = "txt" /\ ~Parses(Column(d, c)[i].t)

HasNumber(d, c) == \E i \in 1..Len(d.rows) : Column(d, c)[i].k = "num"

(* C6 as stated: a column with numbers and a non-numeric text entry is     *)
(* offered as indicator column once the profile is shown.                   *)
C6_TextColumnCanBeChosen ==
    (perfil # NoPerfil /\ col = "") =>
        \A c \in Range(df.columns) :
            (HasBadText(df, c) /\ HasNumber(df, c)) => c \in Range(numeric_cols(df))

Distinct(d, c) == {x \in Range(Column(d, c)) : ~IsNa(x)}

(* C7: the grouping has min(15, number of distinct category strings)       *)
(* entries, in non-increasing order of the reduced value.                   *)
C7_Top15Sorted ==
    cat # "" =>
        /\ Len(grp) <= 15
        /\ Len(grp) = Min(15, Cardinality(Range(Labels(df_f, cat))))
        /\ \A i \in 1..(Len(grp) - 1) :
              grp[i].val.num * grp[i + 1].val.den >= grp[i + 1].val.num * grp[i].val.den

C7_Witness ==
    /\ cat # ""
    /\ Cardinality(Range(Labels(df_f, cat))) > 15
    /\ Len(grp) = 15
    /\ \E i \in 1..14 : grp[i].val.num * grp[i + 1].val.den > grp[i + 1].val.num * grp[i].val.den

(* C8: a resource that is neither datastore-active nor a CSV with a url is *)
(* answered with no table and no request, in every run, and the run stops  *)
(* with the "could not load" message instead of an exception.               *)
C8_AbsentWithoutFetch ==
    (Loaded /\ ~resource.datastore_active /\ ~CsvCapable(resource)) =>
        /\ df = NoDF
        /\ \A e \in ThisRun : e.ep \notin {"datastore_search", "read_csv"}
        /\ pc = "stopped"
        /\ uncaught = "none"
        /\ "error: No se pudo cargar este recurso" \in msgs

C8_Witness ==
    /\ Loaded
    /\ ~resource.datastore_active
    /\ resource.format \in CsvSpellings
    /\ resource.url = ""
    /\ runs = 3
    /\ pc = "stopped"

InBoth(d) ==
    {c \in Range(d.columns) :
        c \in Range(numeric_cols(d)) /\ c \in Range(low_cardinality_cols(d, MaxUnique))}

(* C9 as stated: no column is reported by both numeric_cols and            *)
(* low_cardinality_cols.                                                    *)
C9_ClassesExclusive == perfil # NoPerfil => InBoth(df) = {}

(* C9 amended: the two classifications are independent: the profile counts *)
(* as categorical every column with 2 to 60 distinct non-null values, the  *)
(* numeric ones included, and as numeric every column of a number dtype.    *)
C9_ClassesIndependent ==
    perfil # NoPerfil =>
        /\ perfil.categorias =
              Cardinality({j \in 1..Len(df.columns) :
                  /\ \E x, y \in Distinct(df, df.columns[j]) : x # y
                  /\ Cardinality(Distinct(df, df.columns[j])) <= 60})
        /\ perfil.numericas =
              Cardinality({j \in 1..Len(df.columns) : df.dtypes[j] \in {"int64", "float64"}})

C9_Witness ==
    /\ perfil # NoPerfil
    /\ \E c \in InBoth(df) : Cardinality(Distinct(df, c)) = 60
    /\ perfil.categorias = 1

Below(seq, v) == Cardinality({i \in 1..Len(seq) : seq[i] < v})

Above(seq, v) == Cardinality({i \in 1..Len(seq) : seq[i] > v})

LowerMid(seq) ==
    CHOOSE v \in Range(seq) : Below(seq, v) <= (Len(seq) - 1) \div 2 /\ Above(seq, v) <= Len(seq) \div 2

UpperMid(seq) ==
    CHOOSE v \in Range(seq) : Below(seq, v) <= Len(seq) \div 2 /\ Above(seq, v) <= (Len(seq) - 1) \div 2

(* mean - median, times 2 * Len(seq) *)
MeanMinusMedian(seq) == 2 * Sum(seq) - Len(seq) * (LowerMid(seq) + UpperMid(seq))

(* C10: for a non-empty series the label is Positive exactly when mean >   *)
(* median, Negative exactly when mean < median, Symmetric exactly when     *)
(* they are equal; [1,2,3,4,100] is Positive and [1,2,3,4,5] Symmetric.     *)
C10_SkewLabel ==
    (pc = "done" /\ Len(s) > 0) =>
        /\ asim = Positiva <=> MeanMinusMedian(s) > 0
        /\ asim = Negativa <=> MeanMinusMedian(s) < 0
        /\ asim = Simetrica <=> MeanMinusMedian(s) = 0
        /\ s = <<1, 2, 3, 4, 100>> => asim = Positiva
        /\ s = <<1, 2, 3, 4, 5>> => asim = Simetrica

C10_Witness == pc = "done" /\ s = <<1, 2, 3, 4, 100>> /\ asim = Positiva

====
